---- MODULE Spec2Model ----
(***************************************************************************)
(* A model of powerbi_server.py: the PowerBIClient (client-credentials     *)
(* token held in a shared PowerBIContext, refreshed by authenticate and    *)
(* used by _make_request) and the MCP tools built on it.  Every tool       *)
(* invocation is a task of the asyncio event loop: the code between two    *)
(* awaits of a network call runs as one atomic step, and tasks interleave  *)
(* at the awaits.  The identity provider and the PowerBI service are the   *)
(* environment: they answer each request with any status and body of the   *)
(* small sets below.                                                       *)
(***************************************************************************)
EXTENDS Integers, Sequences, FiniteSets, TLC

VARIABLES context, now, task, granted, lastOk, csvIn, csvOut

vars == <<context, now, task, granted, lastOk, csvIn, csvOut>>

\* ------------------------------------------------------------------ bounds

\* Tool invocations that may be in flight at once.
NumTasks == 2
\* The clock stops advancing here.
MaxTime == 2
\* Longest "value" list a listing endpoint answers with.
MaxItems == 1
\* Most tables a dataset's schema lists.
MaxTables == 2
\* Most rows a query answers with.
MaxRows == 2

\* ---------------------------------------------------------- Python values

\* Optional[T]: None is the empty tuple, a value v is <<v>>.
None == <<>>
Some(v) == <<v>>

\* Truthiness of an Optional[str]: None and "" are falsy.
Truthy(o) == o # None /\ o[1] # ""

\* ------------------------------------------------------ program constants

\* token_data.get("expires_in", 3600)
DefaultExpiresIn == 3600
\* timedelta(seconds=expires_in - 60)
SafetyMargin == 60

Tasks == 1..NumTasks

\* ------------------------------------------------------------- credential

CredValues == {None, Some(""), Some("id")}

\* The context powerbi_lifespan builds: the three fields from the
\* environment, no token, no expiry.
LifespanContexts ==
    { [tenant_id |-> t, client_id |-> c, client_secret |-> s,
       access_token |-> None, token_expires |-> None] :
        t \in CredValues, c \in CredValues, s \in CredValues }

\* all([tenant_id, client_id, client_secret])
CredsPresent(ctx) ==
    Truthy(ctx.tenant_id) /\ Truthy(ctx.client_id) /\ Truthy(ctx.client_secret)

\* The token still used at the instant it expires
TokenValidUpToExpiry(ctx, t) ==
    /\ Truthy(ctx.access_token)
    /\ ctx.token_expires # None
    /\ t <= ctx.token_expires[1]

\* access_token and token_expires and datetime.now() < token_expires
\* (a datetime is always truthy)
TokenValid(ctx, t) ==
    /\ Truthy(ctx.access_token)
    /\ ctx.token_expires # None
    /\ t < ctx.token_expires[1]

\* The cached token looked at before the credentials
AuthDecisionCacheFirst(ctx, t) ==
    IF TokenValid(ctx, t) THEN "cached"
    ELSE IF ~CredsPresent(ctx) THEN "missing"
    ELSE "exchange"

\* What authenticate does before any await: "missing" (return False),
\* "cached" (return True) or "exchange" (POST to the token endpoint).
AuthDecision(ctx, t) ==
    IF ~CredsPresent(ctx) THEN "missing"
    ELSE IF TokenValid(ctx, t) THEN "cached"
    ELSE "exchange"

\* ------------------------------------------------------------ JSON values

\* json.loads results.  An object keeps its keys in order (a Python dict):
\* kv is a sequence of <<key, value>> pairs with distinct keys.
JNull == [j |-> "null"]
JNum(n) == [j |-> "number", n |-> n]
JStr(s) == [j |-> "string", s |-> s]
JList(items) == [j |-> "list", items |-> items]
JObj(kv) == [j |-> "object", kv |-> kv]

IsObj(v) == v.j = "object"
IsList(v) == v.j = "list"

Keys(o) == [i \in 1..Len(o.kv) |-> o.kv[i][1]]
HasKey(o, k) == \E i \in 1..Len(o.kv) : o.kv[i][1] = k
Lookup(o, k) == o.kv[CHOOSE i \in 1..Len(o.kv) : o.kv[i][1] = k][2]

\* d.get(k, default) on a dict
Get(o, k, default) == IF HasKey(o, k) THEN Lookup(o, k) ELSE default

\* len(v) is defined for lists and dicts (TypeError for numbers and None)
HasLen(v) == v.j \in {"list", "object"}
PyLen(v) == IF IsList(v) THEN Len(v.items) ELSE Len(v.kv)

\* v[k]: a dict key, or a list index (0-based in the code, so v[0] is
\* items[1]); None when Python raises KeyError, IndexError or TypeError.
Subscript(v, k) ==
    IF IsObj(v) THEN (IF HasKey(v, k) THEN Some(Lookup(v, k)) ELSE None)
    ELSE None
First(v) ==
    IF IsList(v) /\ Len(v.items) >= 1 THEN Some(v.items[1]) ELSE None

\* ---------------------------------------------------------- HTTP responses

\* What an awaited httpx call ends with: a transport error (the await
\* raises) or a response with a status code and a body; json is FALSE when
\* response.json() raises.
TransportError == [kind |-> "transport"]
Http(status, body) == [kind |-> "http", status |-> status, body |-> body]
NotJson == [json |-> FALSE]
Json(v) == [json |-> TRUE, v |-> v]

\* response.raise_for_status() returns for 2xx only
IsSuccess(resp) ==
    resp.kind = "http" /\ resp.status >= 200 /\ resp.status <= 299

\* -------------------------------------------------------- identity provider

Tokens == {"tokA", "tokB"}

\* expires_in of a token response: absent, a number of seconds, or a value
\* that cannot be subtracted from (Azure AD v1 answers "3599" as a string).
ExpiresInSeconds == {SafetyMargin + 1}
ExpiresInFields ==
    {<<>>} \cup { <<<<"expires_in", JNum(e)>>>> : e \in ExpiresInSeconds }
           \cup { <<<<"expires_in", JStr("3599")>>>> }

TokenBodies ==
    { Json(JObj(<<<<"access_token", JStr(tok)>>>> \o ef)) :
        tok \in Tokens, ef \in ExpiresInFields }
    \cup { Json(JObj(<<<<"error", JStr("invalid_client")>>>>)), NotJson }

TokenResponses ==
    { Http(200, b) : b \in TokenBodies }
    \cup { Http(401, Json(JObj(<<<<"error", JStr("invalid_client")>>>>))),
           TransportError }

\* "return True" in the except clause too
AuthResultTrue(ok, ctx) == [ok |-> TRUE, ctx |-> ctx]

\* What authenticate returns, and the context it leaves.
AuthResult(ok, ctx) == [ok |-> ok, ctx |-> ctx]

\* The safety margin taken off twice
ExpiryDoubleMargin(t, expires_in) ==
    t + (expires_in - SafetyMargin) - SafetyMargin

\* datetime.now() + timedelta(seconds=expires_in - 60)
ExpiryFor(t, expires_in) == t + (expires_in - SafetyMargin)

\* Lines 71-85 of authenticate once the POST has been answered: the new
\* context and the value returned.  Line 76 stores the token before line 78
\* computes the expiry, and every exception ends in "return False".

FinishAuthenticate(ctx, t, resp) ==
    IF ~IsSuccess(resp) THEN AuthResult(FALSE, ctx)
    ELSE IF ~resp.body.json THEN AuthResult(FALSE, ctx)
    ELSE LET token_data == resp.body.v IN
         IF ~(IsObj(token_data) /\ HasKey(token_data, "access_token"))
         THEN AuthResult(FALSE, ctx)
         ELSE LET stored == [ctx EXCEPT
                      !.access_token = Some(Lookup(token_data, "access_token").s)]
                  expires_in == Get(token_data, "expires_in",
                                    JNum(DefaultExpiresIn))
              IN IF expires_in.j # "number" THEN AuthResult(FALSE, stored)
                 ELSE AuthResult(TRUE,
                        [stored EXCEPT !.token_expires =
                            Some(ExpiryFor(t, expires_in.n))])

\* ------------------------------------------------------------- the service

\* Arguments of the tool invocations modelled.
DatasetId == "ds"
WorkspaceId == None
ReportWorkspaceId == "ws"
TableName == "Sales"
ReportName == "report"

\* "/groups/{workspace_id}" + rest when a workspace is given, else rest
Scoped(workspace_id, rest) ==
    IF Truthy(workspace_id) THEN <<"groups", workspace_id[1]>> \o rest ELSE rest

PrimitiveTools ==
    {"get_workspaces", "get_datasets", "get_dataset", "query_dataset",
     "refresh_dataset", "get_refresh_history", "create_report", "get_reports",
     "create_calculated_column", "create_measure"}
Tools == PrimitiveTools
    \cup {"get_dataset_schema", "analyze_data_quality", "export_data_to_csv"}

\* The method and endpoint each primitive tool hands to _make_request.
Endpoint(tool) ==
    CASE tool = "get_workspaces" -> <<"GET", <<"groups">>>>
      [] tool = "get_datasets" -> <<"GET", Scoped(WorkspaceId, <<"datasets">>)>>
      [] tool = "get_dataset" ->
            <<"GET", Scoped(WorkspaceId, <<"datasets", DatasetId>>)>>
      [] tool = "query_dataset" ->
            <<"POST", Scoped(WorkspaceId, <<"datasets", DatasetId, "executeQueries">>)>>
      [] tool = "refresh_dataset" ->
            <<"POST", Scoped(WorkspaceId, <<"datasets", DatasetId, "refreshes">>)>>
      [] tool = "get_refresh_history" ->
            <<"GET", Scoped(WorkspaceId, <<"datasets", DatasetId, "refreshes">>)>>
      [] tool = "create_report" ->
            <<"POST", <<"groups", ReportWorkspaceId, "reports">>>>
      [] tool = "get_reports" -> <<"GET", Scoped(WorkspaceId, <<"reports">>)>>
      [] tool = "create_calculated_column" ->
            <<"POST", Scoped(WorkspaceId,
                <<"datasets", DatasetId, "tables", TableName, "columns">>)>>
      [] tool = "create_measure" ->
            <<"POST", Scoped(WorkspaceId,
                <<"datasets", DatasetId, "tables", TableName, "measures">>)>>
      [] tool = "dataset_info" ->
            <<"GET", Scoped(WorkspaceId, <<"datasets", DatasetId>>)>>
      [] tool = "dataset_tables" ->
            <<"GET", Scoped(WorkspaceId, <<"datasets", DatasetId, "tables">>)>>

\* ---------------------------------------------------------------- envelopes

\* The error reported under "message" in place of "error"
ErrorEnvelopeMessage(msg) == [success |-> FALSE, message |-> msg]

\* except Exception as e: return {"success": False, "error": str(e)}
ErrorEnvelope(msg) == [success |-> FALSE, error |-> msg]

\* raise Exception("Failed to authenticate with PowerBI")
AuthFailedMsg == "Failed to authenticate with PowerBI"

\* str(e) of what the awaited request, raise_for_status or json() raises
ResponseError(resp) ==
    IF resp.kind = "transport" THEN "ConnectError"
    ELSE IF ~IsSuccess(resp) THEN "HTTPStatusError"
    ELSE "JSONDecodeError"

\* The four listing tools: x = response.json();
\* {"success": True, <field>: x.get("value", []), "count": len(...)}
ListEnvelope(tool, resp) ==
    IF ~resp.body.json THEN ErrorEnvelope(ResponseError(resp))
    ELSE LET x == resp.body.v IN
         IF ~IsObj(x) THEN ErrorEnvelope("AttributeError")
         ELSE LET value == Get(x, "value", JList(<<>>)) IN
              IF ~HasLen(value) THEN ErrorEnvelope("TypeError")
              ELSE CASE tool = "get_workspaces" ->
                          [success |-> TRUE, workspaces |-> value,
                           count |-> PyLen(value)]
                     [] tool = "get_datasets" ->
                          [success |-> TRUE, datasets |-> value,
                           workspace_id |-> WorkspaceId, count |-> PyLen(value)]
                     [] tool = "get_refresh_history" ->
                          [success |-> TRUE, refresh_history |-> value,
                           dataset_id |-> DatasetId, count |-> PyLen(value)]
                     [] tool = "get_reports" ->
                          [success |-> TRUE, reports |-> value,
                           workspace_id |-> WorkspaceId, count |-> PyLen(value)]

\* query_dataset: {"success": True, "query": dax_query, "result": json, ...}
QueryEnvelope(dax_query, resp) ==
    IF ~resp.body.json THEN ErrorEnvelope(ResponseError(resp))
    ELSE [success |-> TRUE, query |-> dax_query, result |-> resp.body.v,
          dataset_id |-> DatasetId]

\* The envelope a primitive tool returns once _make_request has returned the
\* (2xx) response.
PrimitiveEnvelope(tool, resp) ==
    CASE tool \in {"get_workspaces", "get_datasets", "get_refresh_history",
                   "get_reports"} -> ListEnvelope(tool, resp)
      [] tool = "get_dataset" ->
            IF ~resp.body.json THEN ErrorEnvelope(ResponseError(resp))
            ELSE [success |-> TRUE, dataset |-> resp.body.v,
                  dataset_id |-> DatasetId, workspace_id |-> WorkspaceId]
      [] tool = "query_dataset" -> QueryEnvelope("EVALUATE Sales", resp)
      [] tool = "refresh_dataset" ->
            [success |-> TRUE, message |-> "Dataset refresh initiated",
             dataset_id |-> DatasetId, status_code |-> resp.status]
      [] tool = "create_report" ->
            IF ~resp.body.json THEN ErrorEnvelope(ResponseError(resp))
            ELSE IF ~IsObj(resp.body.v) THEN ErrorEnvelope("AttributeError")
            ELSE [success |-> TRUE, report |-> resp.body.v,
                  report_id |-> Subscript(resp.body.v, "id"),
                  workspace_id |-> ReportWorkspaceId]
      [] tool = "create_calculated_column" ->
            IF ~resp.body.json THEN ErrorEnvelope(ResponseError(resp))
            ELSE [success |-> TRUE, column |-> resp.body.v,
                  table_name |-> TableName, dataset_id |-> DatasetId]
      [] tool = "create_measure" ->
            IF ~resp.body.json THEN ErrorEnvelope(ResponseError(resp))
            ELSE [success |-> TRUE, measure |-> resp.body.v,
                  table_name |-> TableName, dataset_id |-> DatasetId]

\* get_dataset_schema once both responses are in: dataset_info is the first
\* response's json, tables the second's.
SchemaEnvelope(dataset_info, resp) ==
    IF ~resp.body.json THEN ErrorEnvelope(ResponseError(resp))
    ELSE LET tables == resp.body.v IN
         IF ~IsObj(tables) THEN ErrorEnvelope("AttributeError")
         ELSE [success |-> TRUE, dataset_info |-> dataset_info,
               tables |-> Get(tables, "value", JList(<<>>)),
               dataset_id |-> DatasetId]

\* ------------------------------------------------------------------- text

\* A Python str that the code takes apart is a sequence of characters; a
\* string it only passes along is a TLA+ string.
Comma == ","
Semicolon == ";"
Newline == "\n"

\* s.replace(old, new) for single characters
Replace(s, old, new) == [i \in 1..Len(s) |-> IF s[i] = old THEN new ELSE s[i]]

\* sep.join(parts)
RECURSIVE Join(_, _)
Join(parts, sep) ==
    IF Len(parts) = 0 THEN <<>>
    ELSE IF Len(parts) = 1 THEN parts[1]
    ELSE parts[1] \o <<sep>> \o Join(Tail(parts), sep)

\* str(n) of an int
Digit(d) == CASE d = 0 -> "0" [] d = 1 -> "1" [] d = 2 -> "2" [] d = 3 -> "3"
              [] d = 4 -> "4" [] d = 5 -> "5" [] d = 6 -> "6" [] d = 7 -> "7"
              [] d = 8 -> "8" [] d = 9 -> "9"
RECURSIVE Decimal(_)
Decimal(n) ==
    IF n < 0 THEN <<"-">> \o Decimal(0 - n)
    ELSE IF n < 10 THEN <<Digit(n)>>
    ELSE Decimal(n \div 10) \o <<Digit(n % 10)>>

\* str(v) of a cell value
Str(v) ==
    CASE v.j = "string" -> v.s
      [] v.j = "null" -> <<"N", "o", "n", "e">>
      [] v.j = "number" -> Decimal(v.n)

\* "if rows is not None" in place of "if rows"
PyTruthyNotNone(v) == v.j # "null"

\* bool(v)
PyTruthy(v) ==
    CASE v.j = "null" -> FALSE
      [] v.j = "number" -> v.n # 0
      [] v.j = "string" -> Len(v.s) > 0
      [] v.j = "list" -> Len(v.items) > 0
      [] v.j = "object" -> Len(v.kv) > 0

\* ------------------------------------------------------------ query results

OptSubscript(o, k) == IF o = None THEN None ELSE Subscript(o[1], k)
OptFirst(o) == IF o = None THEN None ELSE First(o[1])

\* result["results"][0]["tables"][0]; None when any step raises
FirstTable(result) ==
    OptFirst(OptSubscript(OptFirst(Subscript(result, "results")), "tables"))

\* ...["rows"][0]["[RowCount]"]
RowCountOf(result) ==
    OptSubscript(OptFirst(OptSubscript(FirstTable(result), "rows")), "[RowCount]")

\* The body executeQueries answers with for one query whose table has `rows`.
QueryResult(rows) ==
    JObj(<< <<"results",
              JList(<< JObj(<< <<"tables",
                                 JList(<< JObj(<< <<"rows", rows>> >>) >>)>> >>) >>)>> >>)

\* ------------------------------------------------------- export_data_to_csv

\* [str(row.get(col, "")).replace(",", ";") for col in columns]
RowValues(row, columns) ==
    [c \in 1..Len(columns) |->
        Replace(Str(Get(row, columns[c], JStr(<<>>))), Comma, Semicolon)]

\* Lines 455-487: what export_data_to_csv returns for the envelope it got
\* from query_dataset.
ExportEnvelope(query_result) ==
    IF ~query_result.success THEN query_result
    ELSE LET rows == OptSubscript(FirstTable(query_result.result), "rows") IN
         IF rows = None THEN ErrorEnvelope("KeyError")
         ELSE IF ~PyTruthy(rows[1])
         THEN [success |-> TRUE, csv_content |-> <<>>, row_count |-> 0,
               message |-> "No data found in table"]
         ELSE IF ~IsList(rows[1]) THEN ErrorEnvelope("TypeError")
         ELSE IF Len(rows[1].items) = 0 THEN ErrorEnvelope("IndexError")
         ELSE IF \E i \in 1..Len(rows[1].items) : ~IsObj(rows[1].items[i])
         THEN ErrorEnvelope("AttributeError")
         ELSE LET items == rows[1].items
                  columns == Keys(items[1])
                  csv_lines == <<Join(columns, Comma)>> \o
                      [i \in 1..Len(items) |->
                          Join(RowValues(items[i], columns), Comma)]
              IN [success |-> TRUE, csv_content |-> Join(csv_lines, Newline),
                  row_count |-> Len(items), column_count |-> Len(columns),
                  table_name |-> TableName]

\* -------------------------------------------------------- service responses

Items(n) == JList([i \in 1..n |-> JObj(<< <<"id", JNum(i)>> >>)])

\* Table entries of a schema: a table with columns, one with measures, and an
\* entry that carries no "name".
TableObjects ==
    { JObj(<< <<"name", JStr("A")>>, <<"columns", Items(2)>> >>),
      JObj(<< <<"name", JStr("B")>>, <<"measures", Items(1)>> >>),
      JObj(<< <<"columns", Items(1)>> >>) }

TableLists ==
    UNION { [1..n -> TableObjects] : n \in 0..MaxTables }

\* Row lists the model's concurrent runs answer an export query with.
SampleRows ==
    { JList(<<>>),
      JList(<< JObj(<< << <<"x">>, JStr(<<"1">>) >>,
                       << <<"y">>, JStr(<<"a", ",", "b">>) >> >>) >>) }

\* The 2xx bodies the service may answer each request with.
Bodies(tool, call) ==
    {NotJson} \cup
    CASE call = "info" -> { Json(JObj(<< <<"id", JStr(DatasetId)>> >>)) }
      [] call = "tables" ->
            { Json(JList(<<>>)), Json(JObj(<<>>)),
              Json(JObj(<< <<"value", JNum(1)>> >>)) }
            \cup { Json(JObj(<< <<"value", JList(ts)>> >>)) : ts \in TableLists }
      [] call = "count" ->
            { Json(QueryResult(JList(<< JObj(<< <<"[RowCount]", JNum(10)>> >>) >>))),
              Json(QueryResult(JList(<<>>))) }
      [] call = "rows" ->
            { Json(QueryResult(r)) : r \in SampleRows } \cup { Json(JObj(<<>>)) }
      [] tool \in {"get_workspaces", "get_datasets", "get_refresh_history",
                   "get_reports"} ->
            { Json(JList(<<>>)), Json(JObj(<<>>)),
              Json(JObj(<< <<"value", JNum(1)>> >>)) }
            \cup { Json(JObj(<< <<"value", Items(n)>> >>)) : n \in 0..MaxItems }
      [] tool = "create_report" ->
            { Json(JObj(<< <<"id", JStr("r1")>> >>)), Json(JObj(<<>>)), Json(JNull) }
      [] tool = "query_dataset" -> { Json(QueryResult(JList(<<>>))) }
      [] OTHER -> { Json(JObj(<< <<"id", JStr("x")>> >>)), Json(JNull) }

ApiResponses(tool, call) ==
    { TransportError, Http(500, NotJson) }
    \cup { Http(200, b) : b \in Bodies(tool, call) }
    \cup (IF tool = "refresh_dataset" THEN { Http(202, NotJson) } ELSE {})

\* ------------------------------------------------------------------- tasks

\* A tool invocation: the tool, where it waits (pc), which of its
\* _make_request calls is in flight (call), the locals of the composed tools,
\* the trace of what it did (events) and what it returned (result).
EmptyDict == [x \in {} |-> x]
\* The dict replaced by the one entry, not updated
PutAlone(d, k, v) == [x \in {k} |-> v]

\* d[k] = v on a dict
Put(d, k, v) == [x \in DOMAIN d \cup {k} |-> IF x = k THEN v ELSE d[x]]

IdleTask ==
    [tool |-> "none", pc |-> "idle", call |-> "none", info |-> JNull,
     tables |-> <<>>, idx |-> 0, quality_analysis |-> EmptyDict,
     events |-> <<>>, result |-> None]

Emit(L, e) == [L EXCEPT !.events = Append(@, e)]

\* A tool function returns env: to the MCP caller when it is the invoked
\* tool.
Return(L, env) ==
    [Emit(L, [k |-> "ret", tool |-> L.tool, env |-> env])
        EXCEPT !.pc = "done", !.result = Some(env)]

\* The DAX text of the call in flight.
DaxQuery(L) ==
    CASE L.call = "count" ->
            Some(<<"EVALUATE ROW(RowCount, COUNTROWS(",
                   Lookup(L.tables[L.idx], "name").s, "))">>)
      [] L.call = "rows" -> Some(<<"EVALUATE TOPN(", "1000", TableName, ")">>)
      [] L.call = "main" /\ L.tool = "query_dataset" -> Some(<<"EVALUATE Sales">>)
      [] OTHER -> None

RequestTarget(L) ==
    CASE L.call = "info" -> Endpoint("dataset_info")
      [] L.call = "tables" -> Endpoint("dataset_tables")
      [] L.call \in {"count", "rows"} -> Endpoint("query_dataset")
      [] OTHER -> Endpoint(L.tool)

\* Lines 92-98 of _make_request: the bearer header is built from the context
\* as authenticate left it and the request is awaited.
SendRequest(L, ctx) ==
    [Emit(L, [k |-> "api", method |-> RequestTarget(L)[1],
              path |-> RequestTarget(L)[2], dax |-> DaxQuery(L),
              bearer |-> ctx.access_token])
        EXCEPT !.pc = "api"]

\* The row count read with a default in place of the subscripts
TableEntryDefaulted(table, count_result) ==
    IF count_result.success
    THEN [row_count |-> JNull, columns |-> 0, measures |-> 0]
    ELSE [error |-> "Could not analyze table"]

\* One table's entry of quality_analysis (lines 418-429) for the envelope
\* query_dataset returned.
TableEntry(table, count_result) ==
    IF count_result.success
    THEN LET row_count == RowCountOf(count_result.result)
             columns == Get(table, "columns", JList(<<>>))
             measures == Get(table, "measures", JList(<<>>))
         IN IF row_count = None \/ ~HasLen(columns) \/ ~HasLen(measures)
            THEN [error |-> "Query execution failed"]
            ELSE [row_count |-> row_count[1], columns |-> PyLen(columns),
                  measures |-> PyLen(measures)]
    ELSE [error |-> "Could not analyze table"]

RECURSIVE StartRequest(_, _, _, _), RequestFailed(_, _, _, _)
RECURSIVE NextTable(_, _, _), QueryReturned(_, _, _, _)

\* _make_request up to its first await (lines 89-98 with lines 51-72 of
\* authenticate): fail without I/O, send the request with the cached token,
\* or POST to the token endpoint.
StartRequest(L0, call, ctx, t) ==
    LET d == AuthDecision(ctx, t)
        L1 == [L0 EXCEPT !.call = call]
        L == Emit(Emit(L1, [k |-> "request", call |-> call, dax |-> DaxQuery(L1)]),
                  [k |-> "auth", d |-> d])
    IN CASE d = "missing" -> RequestFailed(L, AuthFailedMsg, ctx, t)
         [] d = "cached" -> SendRequest(L, ctx)
         [] d = "exchange" -> [Emit(L, [k |-> "post"]) EXCEPT !.pc = "token"]

\* The for loop of analyze_data_quality from table idx on (lines 412-436),
\* up to the next await.  table["name"] is outside the inner try.
NextTable(L, ctx, t) ==
    IF L.idx > Len(L.tables)
    THEN Return(L, [success |-> TRUE, dataset_id |-> DatasetId,
                    quality_analysis |-> L.quality_analysis,
                    total_tables |-> Len(L.tables)])
    ELSE IF Subscript(L.tables[L.idx], "name") = None
    THEN Return(L, ErrorEnvelope("KeyError"))
    ELSE StartRequest(L, "count", ctx, t)

\* query_dataset returned env to the composed tool that called it.
QueryReturned(L0, env, ctx, t) ==
    LET L == Emit(L0, [k |-> "ret", tool |-> "query_dataset", env |-> env])
    IN IF L.tool = "export_data_to_csv" THEN Return(L, ExportEnvelope(env))
       ELSE LET table == L.tables[L.idx]
            IN NextTable([L EXCEPT
                   !.quality_analysis =
                       Put(@, Lookup(table, "name").s, TableEntry(table, env)),
                   !.idx = @ + 1], ctx, t)

\* get_dataset_schema returned env (lines 405-410 of analyze_data_quality
\* when that is the caller).
SchemaReturned(L0, env, ctx, t) ==
    IF L0.tool = "get_dataset_schema" THEN Return(L0, env)
    ELSE LET L == Emit(L0, [k |-> "ret", tool |-> "get_dataset_schema",
                            env |-> env])
         IN IF ~env.success THEN Return(L, env)
            ELSE IF IsList(env.tables)
            THEN NextTable([L EXCEPT !.tables = env.tables.items, !.idx = 1,
                               !.quality_analysis = EmptyDict], ctx, t)
            ELSE Return(L, ErrorEnvelope("TypeError"))

\* _make_request raised msg: the except clause of the tool function that
\* awaited it turns it into an envelope.
RequestFailed(L, msg, ctx, t) ==
    CASE L.call = "main" -> Return(L, ErrorEnvelope(msg))
      [] L.call \in {"info", "tables"} ->
            SchemaReturned(L, ErrorEnvelope(msg), ctx, t)
      [] L.call \in {"count", "rows"} ->
            QueryReturned(L, ErrorEnvelope(msg), ctx, t)

\* _make_request returned the response (raise_for_status passed).
RequestReturned(L, resp, ctx, t) ==
    CASE L.call = "main" -> Return(L, PrimitiveEnvelope(L.tool, resp))
      [] L.call = "info" ->
            IF ~resp.body.json
            THEN SchemaReturned(L, ErrorEnvelope(ResponseError(resp)), ctx, t)
            ELSE StartRequest([L EXCEPT !.info = resp.body.v], "tables", ctx, t)
      [] L.call = "tables" ->
            SchemaReturned(L, SchemaEnvelope(L.info, resp), ctx, t)
      [] L.call \in {"count", "rows"} ->
            QueryReturned(L, QueryEnvelope(DaxQuery(L), resp), ctx, t)

\* The schema fetch starting at the tables call
FirstCallTables(tool) ==
    CASE tool \in {"get_dataset_schema", "analyze_data_quality"} -> "tables"
      [] tool = "export_data_to_csv" -> "rows"
      [] OTHER -> "main"

\* The first _make_request call of a tool.
FirstCall(tool) ==
    CASE tool \in {"get_dataset_schema", "analyze_data_quality"} -> "info"
      [] tool = "export_data_to_csv" -> "rows"
      [] OTHER -> "main"

\* ----------------------------------------------------------------- actions

Init ==
    /\ context \in LifespanContexts
    /\ now = 0
    /\ task = [t \in Tasks |-> IdleTask]
    /\ granted = {}
    /\ lastOk = None
    /\ csvIn = None
    /\ csvOut = None

\* Which invocations the model lets overlap: any tool may be invoked while
\* no other invocation is in flight, and the tools of RaceTools may be
\* invoked while others of them are.
RaceTools == {"get_workspaces", "refresh_dataset"}
InFlight(u) == task[u].pc \in {"token", "api"}
Admits(t, tool) ==
    \/ \A u \in Tasks \ {t} : task[u].pc = "idle"
    \/ /\ tool \in RaceTools
       /\ \A u \in Tasks \ {t} : task[u].tool \in RaceTools \cup {"none"}

\* The MCP caller invokes a tool: the tool runs to its first await.
Invoke(t, tool) ==
    /\ task[t].pc = "idle"
    /\ Admits(t, tool)
    /\ task' = [task EXCEPT ![t] =
           StartRequest([IdleTask EXCEPT !.tool = tool], FirstCall(tool),
                        context, now)]
    /\ UNCHANGED <<context, now, granted, lastOk, csvIn, csvOut>>

\* History: the access tokens the identity provider has returned in 2xx
\* responses (granted), and the last exchange authenticate reported success
\* for (lastOk: its token, the time, the expires_in field of the body).
ReturnedToken(resp) ==
    IF IsSuccess(resp) /\ resp.body.json /\ IsObj(resp.body.v)
       /\ HasKey(resp.body.v, "access_token")
    THEN {Lookup(resp.body.v, "access_token").s} ELSE {}

ReturnedAccessToken(resp) ==
    IF ReturnedToken(resp) = {} THEN None
    ELSE Some(CHOOSE tok \in ReturnedToken(resp) : TRUE)

ReturnedExpiresIn(resp) ==
    IF ReturnedToken(resp) = {} THEN None
    ELSE Subscript(resp.body.v, "expires_in")

\* The identity provider answers the POST of task t: authenticate finishes,
\* and _make_request sends the request or raises.
TokenResponse(t, resp) ==
    /\ task[t].pc = "token"
    /\ LET r == FinishAuthenticate(context, now, resp)
           L == Emit(task[t], [k |-> "token", answered |-> IsSuccess(resp),
                               ok |-> r.ok])
       IN /\ context' = r.ctx
          /\ granted' = granted \cup ReturnedToken(resp)
          /\ lastOk' = IF r.ok
                       THEN Some([token |-> ReturnedAccessToken(resp), at |-> now,
                                  expires_in |-> ReturnedExpiresIn(resp)])
                       ELSE lastOk
          /\ task' = [task EXCEPT ![t] =
                 IF r.ok THEN SendRequest(L, r.ctx)
                 ELSE RequestFailed(L, AuthFailedMsg, r.ctx, now)]
    /\ UNCHANGED <<now, csvIn, csvOut>>

\* The service answers the request of task t: _make_request returns or
\* raises, and the tool runs to its next await or to its return.
ApiResponse(t, resp) ==
    /\ task[t].pc = "api"
    /\ task' = [task EXCEPT ![t] =
           IF IsSuccess(resp) THEN RequestReturned(task[t], resp, context, now)
           ELSE RequestFailed(task[t], ResponseError(resp), context, now)]
    /\ UNCHANGED <<context, now, granted, lastOk, csvIn, csvOut>>

\* The MCP caller has the result of task t; the slot takes the next
\* invocation.
Forget(t) ==
    /\ task[t].pc = "done"
    /\ task' = [task EXCEPT ![t] = IdleTask]
    /\ UNCHANGED <<context, now, granted, lastOk, csvIn, csvOut>>

\* Time passes.
Tick ==
    /\ now < MaxTime
    /\ now' = now + 1
    /\ UNCHANGED <<context, task, granted, lastOk, csvIn, csvOut>>

Next ==
    \/ \E t \in Tasks, tool \in Tools : Invoke(t, tool)
    \/ \E t \in Tasks, resp \in TokenResponses : TokenResponse(t, resp)
    \/ \E t \in Tasks :
          \E resp \in ApiResponses(task[t].tool, task[t].call) :
              ApiResponse(t, resp)
    \/ \E t \in Tasks : Forget(t)
    \/ Tick

Spec == Init /\ [][Next]_vars

\* A PowerBIClient may be built on any PowerBIContext (the dataclass takes
\* every field): here also one that already holds a token, valid until 1.
AnyContexts ==
    LifespanContexts \cup
    { [c EXCEPT !.access_token = Some("tok0"), !.token_expires = Some(1)] :
        c \in LifespanContexts }

InitCtx ==
    /\ context \in AnyContexts
    /\ now = 0
    /\ task = [t \in Tasks |-> IdleTask]
    /\ granted = {}
    /\ lastOk = None
    /\ csvIn = None
    /\ csvOut = None

SpecCtx == InitCtx /\ [][Next]_vars

\* ------------------------------------------- export_data_to_csv on its own

\* Column names and cell values of the rows a query answers with: a name
\* and a cell with a comma, a cell with a line break, a null and a number.
ColumnOrders ==
    { << <<"x">> >>, << <<"x">>, <<"y">> >>, << <<"y">>, <<"x">> >>,
      << <<"a", ",", "b">> >> }
CellValues ==
    { JStr(<<"1">>), JStr(<<"a", ",", "b">>), JStr(<<"l", "\n", "m">>),
      JNull, JNum(12) }

RowDicts ==
    UNION { { JObj([i \in 1..Len(cols) |-> <<cols[i], cells[i]>>]) :
                cells \in [1..Len(cols) -> CellValues] } :
            cols \in ColumnOrders }

RowLists == UNION { [1..n -> RowDicts] : n \in 0..MaxRows }

\* What query_dataset may hand back to export_data_to_csv.
QueryResults ==
    { ErrorEnvelope("HTTPStatusError") }
    \cup { [success |-> TRUE, query |-> DaxQuery([call |-> "rows"]),
            result |-> r, dataset_id |-> DatasetId] :
           r \in { QueryResult(JList(rows)) : rows \in RowLists }
                 \cup { QueryResult(JNull), QueryResult(JList(<<JNum(1)>>)),
                        JObj(<<>>) } }

InitCsv ==
    /\ context \in { c \in LifespanContexts : CredsPresent(c) }
    /\ now = 0
    /\ task = [t \in Tasks |-> IdleTask]
    /\ granted = {}
    /\ lastOk = None
    /\ csvIn \in { Some(q) : q \in QueryResults }
    /\ csvOut = None

\* export_data_to_csv from the return of its query_dataset call on.
ExportDataToCsv ==
    /\ csvIn # None
    /\ csvOut = None
    /\ csvOut' = Some(ExportEnvelope(csvIn[1]))
    /\ UNCHANGED <<context, now, task, granted, lastOk, csvIn>>

NextCsv == ExportDataToCsv

SpecCsv == InitCsv /\ [][NextCsv]_vars

\* ================================================================== claims

\* s.split(sep) for a single character
RECURSIVE SplitBy(_, _)
SplitBy(s, sep) ==
    IF \A i \in 1..Len(s) : s[i] # sep THEN <<s>>
    ELSE LET i == CHOOSE k \in 1..Len(s) :
                      s[k] = sep /\ \A m \in 1..(k - 1) : s[m] # sep
         IN <<SubSeq(s, 1, i - 1)>> \o SplitBy(SubSeq(s, i + 1, Len(s)), sep)

\* The row sequence of the query result export_data_to_csv was handed
\* (None when the query failed or the result has no such path).
ExportedRows ==
    IF csvIn = None THEN None
    ELSE IF ~csvIn[1].success THEN None
    ELSE OptSubscript(FirstTable(csvIn[1].result), "rows")

ExportedRowDicts ==
    /\ csvOut # None
    /\ ExportedRows # None
    /\ IsList(ExportedRows[1])
    /\ Len(ExportedRows[1].items) > 0
    /\ \A i \in 1..Len(ExportedRows[1].items) : IsObj(ExportedRows[1].items[i])

ExportedNoRows ==
    /\ csvOut # None
    /\ ExportedRows # None
    /\ IsList(ExportedRows[1])
    /\ Len(ExportedRows[1].items) = 0

\* C7: for a non-empty sequence of rows the export succeeds with a header
\* line and exactly one line per row, in row order, the columns in the key
\* order of the first row; row_count is the number of rows, column_count the
\* number of keys of the first row, and every line splits on commas into
\* exactly column_count fields.
C7_CsvShape ==
    ExportedRowDicts =>
        LET out == csvOut[1]
            items == ExportedRows[1].items
            columns == Keys(items[1])
        IN /\ out.success
           /\ out.row_count = Len(items)
           /\ out.column_count = Len(columns)
           /\ LET lines == SplitBy(out.csv_content, Newline)
              IN /\ Len(lines) = Len(items) + 1
                 /\ \A n \in 1..Len(lines) :
                        Len(SplitBy(lines[n], Comma)) = out.column_count
                 /\ lines[1] = Join(columns, Comma)
                 /\ \A i \in 1..Len(items) :
                        SplitBy(lines[i + 1], Comma) =
                            [c \in 1..Len(columns) |->
                                Replace(Str(Get(items[i], columns[c], JStr(<<>>))),
                                        Comma, Semicolon)]

\* C8 as stated: zero rows give success with empty content, a row count of
\* 0 and a column count of 0.
C8_EmptyExportAsStated ==
    ExportedNoRows =>
        /\ csvOut[1].success
        /\ csvOut[1].csv_content = <<>>
        /\ csvOut[1].row_count = 0
        /\ "column_count" \in DOMAIN csvOut[1]
        /\ csvOut[1].column_count = 0

\* C8 as amended: zero rows give success with empty content, a row count of
\* 0 and a message; the envelope carries no column count.
C8_EmptyExport ==
    ExportedNoRows =>
        /\ csvOut[1].success
        /\ csvOut[1].csv_content = <<>>
        /\ csvOut[1].row_count = 0
        /\ DOMAIN csvOut[1] = {"success", "csv_content", "row_count", "message"}

C8_Witness == ExportedNoRows

\* ------------------------------------------------------------ event traces

Events(t) == task[t].events

\* The index of the _make_request call that event i of ev belongs to.
RequestOf(ev, i) ==
    CHOOSE j \in 1..i :
        ev[j].k = "request" /\ \A m \in (j + 1)..i : ev[m].k # "request"

\* The events of kind k that belong to the same _make_request call as event i.
InCall(ev, i, k) ==
    { m \in 1..Len(ev) : ev[m].k = k /\ RequestOf(ev, m) = RequestOf(ev, i) }

ErrorMessages ==
    { AuthFailedMsg, "ConnectError", "HTTPStatusError", "JSONDecodeError",
      "AttributeError", "TypeError", "KeyError", "IndexError" }

\* A Result Envelope: success with a payload and no error, or failure with
\* an error string and nothing else.
WellFormed(env) ==
    /\ "success" \in DOMAIN env
    /\ IF env.success
       THEN "error" \notin DOMAIN env /\ DOMAIN env \ {"success"} # {}
       ELSE DOMAIN env = {"success", "error"} /\ env.error \in ErrorMessages

\* C1: every tool, whatever its underlying calls ended with, returns a
\* well-formed Result Envelope: each invocation that is no longer waiting for
\* a response has returned one, and each tool function called on the way
\* returned one.
C1_WellFormedEnvelopes ==
    \A t \in Tasks :
        /\ task[t].pc \in {"idle", "token", "api", "done"}
        /\ task[t].pc = "done" =>
               /\ task[t].result # None
               /\ WellFormed(task[t].result[1])
        /\ \A i \in 1..Len(Events(t)) :
               Events(t)[i].k = "ret" => WellFormed(Events(t)[i].env)

\* A composed tool has returned a failure after its schema fetch succeeded,
\* and the schema it was handed was in an envelope of its own.
C1_Witness ==
    \E t \in Tasks :
        /\ task[t].pc = "done"
        /\ task[t].tool = "analyze_data_quality"
        /\ ~task[t].result[1].success
        /\ \E i \in 1..Len(Events(t)) :
               /\ Events(t)[i].k = "ret"
               /\ Events(t)[i].tool = "get_dataset_schema"
               /\ Events(t)[i].env.success

\* C4: with a credential field empty or absent, authenticate fails and no
\* network request is issued, neither to the identity provider nor to the
\* service, whatever token and expiry the context holds; the operation ends
\* in the failure envelope of line 90.
C4_MissingCredentials ==
    ~CredsPresent(context) =>
        \A t \in Tasks :
            /\ \A i \in 1..Len(Events(t)) :
                   /\ Events(t)[i].k \notin {"post", "api", "token"}
                   /\ Events(t)[i].k = "auth" => Events(t)[i].d = "missing"
            /\ task[t].pc \in {"idle", "done"}
            /\ task[t].pc = "done" =>
                   task[t].result[1] = ErrorEnvelope(AuthFailedMsg)

\* A tool has failed for a missing credential while the context held a
\* token that had not expired.
C4_Witness ==
    /\ ~CredsPresent(context)
    /\ TokenValid(context, now)
    /\ \E t \in Tasks : task[t].pc = "done"

\* C6: when the identity provider answers non-2xx or the transport fails,
\* the _make_request call that posted has made exactly one token-exchange
\* attempt and no request to the service, and the primitive tool around it
\* returns a failure envelope at once.
C6_FailedExchangeIsFatal ==
    \A t \in Tasks : \A i \in 1..Len(Events(t)) :
        (Events(t)[i].k = "token" /\ ~Events(t)[i].answered) =>
            /\ Cardinality(InCall(Events(t), i, "post")) = 1
            /\ InCall(Events(t), i, "api") = {}
            /\ InCall(Events(t), i, "token") = {i}
            /\ i < Len(Events(t))
            /\ Events(t)[i + 1].k = "ret"
            /\ Events(t)[i + 1].tool \in PrimitiveTools \cup {"get_dataset_schema"}
            /\ ~Events(t)[i + 1].env.success

\* A row-count query of analyze_data_quality has failed on the token
\* exchange.
C6_Witness ==
    \E t \in Tasks : \E i \in 1..Len(Events(t)) :
        /\ Events(t)[i].k = "token"
        /\ ~Events(t)[i].answered
        /\ Events(t)[RequestOf(Events(t), i)].call = "count"

\* The events task t appends in a step.
NewEvents(t) ==
    SubSeq(task'[t].events, Len(task[t].events) + 1, Len(task'[t].events))

\* The expiry the last successful exchange gives: its time, plus the
\* lifetime the provider stated (3600 when it stated none), less 60.
Lifetime(exchange) ==
    IF exchange.expires_in = None THEN 3600 ELSE exchange.expires_in[1].n
ExpiryOf(exchange) == exchange.at + Lifetime(exchange) - 60

C3_RefreshBoundary ==
    [][\A t \in Tasks :
          /\ \A i \in 1..Len(NewEvents(t)) :
                (/\ NewEvents(t)[i].k = "auth"
                 /\ CredsPresent(context')
                 /\ \/ ~Truthy(context'.access_token)
                    \/ context'.token_expires = None
                    \/ now' >= context'.token_expires[1])
                => /\ NewEvents(t)[i].d = "exchange"
                   /\ i + 1 = Len(NewEvents(t))
                   /\ NewEvents(t)[i + 1].k = "post"
                   /\ task'[t].pc = "token"
                   /\ Cardinality(InCall(task'[t].events,
                                         Len(task'[t].events), "post")) = 1
          /\ \A i \in 1..Len(NewEvents(t)) :
                (NewEvents(t)[i].k = "token" /\ NewEvents(t)[i].ok)
                => /\ lastOk' # None
                   /\ lastOk'[1].at = now
                   /\ lastOk'[1].token # None
                   /\ context'.access_token = lastOk'[1].token
                   /\ context'.token_expires = Some(ExpiryOf(lastOk'[1]))
                   /\ Cardinality(InCall(task'[t].events,
                                         Len(task'[t].events), "post")) = 1]_vars

\* An exchange is under way for a context whose token has reached its
\* expiry.
C3_Witness ==
    /\ Truthy(context.access_token)
    /\ context.token_expires = Some(now)
    /\ \E t \in Tasks :
           /\ task[t].pc = "token"
           /\ Events(t)[Len(Events(t)) - 1] = [k |-> "auth", d |-> "exchange"]

IsSchemaRet(e) == e.k = "ret" /\ e.tool = "get_dataset_schema"
IsQueryRet(e) == e.k = "ret" /\ e.tool = "query_dataset"
IsCountRequest(e) == e.k = "request" /\ e.call = "count"
IsSchemaRequest(e) == e.k = "request" /\ e.call \in {"info", "tables"}

Analysed(t) ==
    task[t].tool = "analyze_data_quality" /\ task[t].pc = "done"

\* The envelope get_dataset_schema returned to the analysis of task t.
SchemaOf(t) == SelectSeq(Events(t), IsSchemaRet)[1].env

\* The tables of a schema, none when its tables value is not a list.
TablesOf(schema) ==
    IF IsList(schema.tables) THEN schema.tables.items ELSE <<>>

Named(table) == IsObj(table) /\ HasKey(table, "name")
NameOf(table) == Lookup(table, "name").s

\* The row-count query of a table.
CountQuery(table) ==
    Some(<<"EVALUATE ROW(RowCount, COUNTROWS(", NameOf(table), "))">>)

\* A per-table failure: the query failed, or its result lacks the path
\* results[0].tables[0].rows[0]["[RowCount]"].
TableFailed(env) == ~env.success \/ RowCountOf(env.result) = None

\* What the claims say of the table at position k of the schema: its query
\* returned, and its entry is an error entry if the query failed and its
\* analysis if not.
EntryAsClaimed(t, k) ==
    LET table == TablesOf(SchemaOf(t))[k]
        rets == SelectSeq(Events(t), IsQueryRet)
        qa == task[t].result[1].quality_analysis
    IN /\ k <= Len(rets)
       /\ NameOf(table) \in DOMAIN qa
       /\ IF TableFailed(rets[k].env)
          THEN DOMAIN qa[NameOf(table)] = {"error"}
          ELSE /\ DOMAIN qa[NameOf(table)] = {"row_count", "columns", "measures"}
               /\ qa[NameOf(table)].row_count = RowCountOf(rets[k].env.result)[1]

WellNamed(schema) ==
    /\ IsList(schema.tables)
    /\ \A k \in 1..Len(TablesOf(schema)) : Named(TablesOf(schema)[k])
    /\ \A k, m \in 1..Len(TablesOf(schema)) :
           NameOf(TablesOf(schema)[k]) = NameOf(TablesOf(schema)[m]) => k = m

InOrder(ev) ==
    /\ \A i \in 1..Len(ev) : IsCountRequest(ev[i]) =>
           /\ \E j \in 1..(i - 1) : IsSchemaRet(ev[j]) /\ ev[j].env.success
           /\ Len(SelectSeq(SubSeq(ev, 1, i - 1), IsCountRequest))
                = Len(SelectSeq(SubSeq(ev, 1, i - 1), IsQueryRet))
    /\ \A i \in 1..Len(ev) : IsSchemaRet(ev[i]) =>
           /\ \A j \in 1..(i - 1) : ~IsSchemaRet(ev[j])
           /\ \E j \in 1..(i - 1) : ev[j].k = "request" /\ ev[j].call = "info"
           /\ ev[i].env.success =>
                  /\ Len(SelectSeq(SubSeq(ev, 1, i - 1), IsSchemaRequest)) = 2
                  /\ \E j \in 1..(i - 1) :
                         /\ ev[j].k = "request" /\ ev[j].call = "info"
                         /\ \E m \in (j + 1)..(i - 1) :
                                ev[m].k = "request" /\ ev[m].call = "tables"
    /\ \A i \in 1..Len(ev) : IsSchemaRequest(ev[i]) =>
           \A j \in 1..(i - 1) : ~IsSchemaRet(ev[j])

\* The row-count queries a finished analysis issued are those of the first
\* n tables of the schema, one each, in the order of the schema.
QueriedFirst(t, n) ==
    LET reqs == SelectSeq(Events(t), IsCountRequest)
    IN /\ Len(reqs) = n
       /\ \A k \in 1..n : /\ Named(TablesOf(SchemaOf(t))[k])
                          /\ reqs[k].dax = CountQuery(TablesOf(SchemaOf(t))[k])

\* C9 as stated: the schema calls complete before any row-count query; a
\* failed schema fetch is returned unchanged with no query issued; otherwise
\* exactly one row-count query is issued per table of the schema, in the
\* order of the schema, one after the other, whatever the earlier ones
\* returned.
C9_CallOrderingAsStated ==
    \A t \in Tasks : task[t].tool = "analyze_data_quality" =>
        /\ InOrder(Events(t))
        /\ Analysed(t) =>
               IF ~SchemaOf(t).success
               THEN /\ task[t].result[1] = SchemaOf(t)
                    /\ SelectSeq(Events(t), IsCountRequest) = <<>>
               ELSE QueriedFirst(t, Len(TablesOf(SchemaOf(t))))

\* The number of entries of tables before the first one that has no name.
RECURSIVE NamedPrefix(_)
NamedPrefix(tables) ==
    IF tables = <<>> \/ ~Named(Head(tables)) THEN 0
    ELSE 1 + NamedPrefix(Tail(tables))

\* C9: the schema calls complete before any row-count query; a failed schema
\* fetch is returned unchanged with no query issued; otherwise exactly one
\* row-count query is issued per table of the schema up to the first entry
\* that has no name (for every table when all entries have one), in the order
\* of the schema, one after the other, whatever the earlier ones returned.
C9_CallOrdering ==
    \A t \in Tasks : task[t].tool = "analyze_data_quality" =>
        /\ InOrder(Events(t))
        /\ Analysed(t) =>
               IF ~SchemaOf(t).success
               THEN /\ task[t].result[1] = SchemaOf(t)
                    /\ SelectSeq(Events(t), IsCountRequest) = <<>>
               ELSE QueriedFirst(t, NamedPrefix(TablesOf(SchemaOf(t))))

\* An analysis of two tables has returned after the query for the first
\* table failed and the query for the second was issued.
C9_Witness ==
    \E t \in Tasks :
        /\ Analysed(t)
        /\ SchemaOf(t).success
        /\ Len(TablesOf(SchemaOf(t))) = 2
        /\ Len(SelectSeq(Events(t), IsCountRequest)) = 2
        /\ ~SelectSeq(Events(t), IsQueryRet)[1].env.success

\* ------------------------------------------- the Credential after failure

\* The stored token and expiry are those of one successful exchange: nothing
\* before the first, and afterwards the token and the expiry of the last.
FromOneExchange(ctx, exchange) ==
    IF exchange = None
    THEN ctx.access_token = None /\ ctx.token_expires = None
    ELSE /\ ctx.access_token = exchange[1].token
         /\ ctx.token_expires = Some(ExpiryOf(exchange[1]))

\* C11: whenever authenticate reports failure (missing credentials, non-2xx,
\* transport error, no access_token in the body, unusable expires_in) the
\* stored token and expiry are what they were before the call, so the two
\* always come from the same successful exchange.
C11_FailureLeavesCredential ==
    [][/\ \A t \in Tasks : \A i \in 1..Len(NewEvents(t)) :
             \/ NewEvents(t)[i].k = "token" /\ ~NewEvents(t)[i].ok
             \/ NewEvents(t)[i].k = "auth" /\ NewEvents(t)[i].d = "missing"
             => /\ context'.access_token = context.access_token
                /\ context'.token_expires = context.token_expires
       /\ FromOneExchange(context', lastOk')]_vars

\* ------------------------------------------------ entries and total_tables

\* The names of the tables of a schema.
NamesOf(tables) == { NameOf(tables[k]) : k \in 1..Len(tables) }

\* C12 as stated: whenever the analysis returns success, quality_analysis
\* holds one entry per table of the schema, counts or an error, so the
\* number of entries equals total_tables.
C12_EntriesMatchCountAsStated ==
    \A t \in Tasks : (Analysed(t) /\ task[t].result[1].success) =>
        /\ task[t].result[1].total_tables = Len(TablesOf(SchemaOf(t)))
        /\ \A k \in 1..Len(TablesOf(SchemaOf(t))) :
               NameOf(TablesOf(SchemaOf(t))[k])
                   \in DOMAIN task[t].result[1].quality_analysis
        /\ Cardinality(DOMAIN task[t].result[1].quality_analysis)
               = task[t].result[1].total_tables

\* C12: whenever the analysis returns success, total_tables is the number of
\* tables of the schema and quality_analysis holds exactly one entry, counts
\* or an error, for each distinct table name; the number of entries equals
\* total_tables when no name occurs twice and is smaller when one does.
C12_EntriesMatchCount ==
    \A t \in Tasks : (Analysed(t) /\ task[t].result[1].success) =>
        LET tables == TablesOf(SchemaOf(t))
            qa == task[t].result[1].quality_analysis
        IN /\ task[t].result[1].total_tables = Len(tables)
           /\ \A k \in 1..Len(tables) : Named(tables[k])
           /\ DOMAIN qa = NamesOf(tables)
           /\ \A n \in DOMAIN qa :
                  \/ DOMAIN qa[n] = {"error"}
                  \/ DOMAIN qa[n] = {"row_count", "columns", "measures"}
           /\ Cardinality(DOMAIN qa) <= Len(tables)
           /\ Cardinality(DOMAIN qa) = Len(tables)
                  <=> \A k, m \in 1..Len(tables) :
                          NameOf(tables[k]) = NameOf(tables[m]) => k = m

\* An analysis of two tables of different names has returned success with
\* total_tables 2.
C12_Witness ==
    \E t \in Tasks :
        /\ Analysed(t)
        /\ task[t].result[1].success
        /\ task[t].result[1].total_tables = 2
        /\ Cardinality(NamesOf(TablesOf(SchemaOf(t)))) = 2

====
